---------------------------- MODULE Spec2Model ----------------------------
(***************************************************************************)
(* A model of zenodb's ingest core (src/insert.go) and of the planner's    *)
(* Plan, the sub-query latch of its Filter and the handler's query         *)
(* coalescer (src/planner/planner.go).                                     *)
(*                                                                         *)
(* Ingest: DB.InsertRaw normalises a point into WAL frames; the WAL reader *)
(* (table.processWALInserts) hands each frame to the insert worker         *)
(* (table.processInserts), which decodes it (table.insert), filters it and *)
(* applies it to the row store (table.doInsert) or acknowledges it with a  *)
(* skip marker (table.skip).                                               *)
(*                                                                         *)
(* Bytes are naturals below 256 and byte slices are sequences of them.  A  *)
(* ByteMap is the byte slice k1,v1,k2,v2,... of its entries in key order   *)
(* (one byte per key, one byte per float64 value).  A nil pointer or nil   *)
(* slice is Nil == <<>>, a non-nil one Some(x) == <<x>>.  An error is a    *)
(* natural, 0 being Go's nil error.                                        *)
(***************************************************************************)
EXTENDS Integers, Sequences, FiniteSets, TLC

VARIABLES
    isFollower,   \* db.opts.Follow != nil
    where,        \* the table's WHERE (t.getWhere()): Nil or Some([k, v])
    GroupBy,      \* t.GroupBy: the dimension keys the table groups by
    wal,          \* db.streams: stream name -> the frames appended to its WAL
    written,      \* per stream, the (ts, dims, vals) each appended frame was built
                  \* from and whether the call that wrote it returned nil
    call,         \* the last InsertRaw call: its arguments, its w.Write calls, its result
    okCalls,      \* number of InsertRaw calls on the table's stream that returned nil
    rdPc,         \* the WAL reader's position in processWALInserts
    rdPos,        \* number of frames wal.Read() has returned (t.wal.Offset())
    rdBuf,        \* the walRead the reader is about to send on the channel
    wkPc,         \* the insert worker's position in processInserts
    read,         \* the walRead the worker received (processInserts' variable read)
    observed,     \* offsets of the frames in the order the worker received them
    rowStore,     \* the inserts handed to t.rowStore.insert, in order
    doInserted,   \* the arguments of each doInsert call, in order
    stats,        \* t.stats: FilteredPoints, InsertedPoints, QueuedPoints
    clock,        \* t.db.clock
    stopped,      \* the stop channel is closed
    pooled,       \* number of buffers returned to db.walBuffers
    truncLog,     \* what t.truncateBefore() returned in each t.insert, in order
    hasRunSubqueries, \* the Filter closure's latch
    subq,         \* runSubQueries: "idle", "running" or "returned"
    subData,      \* the sub-query results the WHERE can see
    runs,         \* number of times runSubQueries was entered
    pc,           \* each caller's position in the Include closure
    keyOf,        \* the key each caller's invocation was given
    subErr,       \* what runSubQueries returned to each caller's invocation
    ret,          \* what each caller's last invocation returned
    planned,      \* what the last call of Plan was given and returned
    queries,      \* h.queries: the queries buffered in the channel, oldest first
    produced,     \* number of queries handler.query has sent on h.queries
    coPc,         \* coalesceQueries' position
    table,        \* coalesceQueries' variable table
    coalescedQueries, \* coalesceQueries' variable coalescedQueries
    remainingQueries, \* coalesceQueries' variable remainingQueries
    executing     \* the batch processQueries is executing, Nil when it is receiving

vars == <<isFollower, where, GroupBy, wal, written, call, okCalls, rdPc, rdPos,
          rdBuf, wkPc, read, observed, rowStore, doInserted, stats, clock,
          stopped, pooled, truncLog, hasRunSubqueries, subq, subData, runs, pc,
          keyOf, subErr, ret, planned, queries, produced, coPc, table,
          coalescedQueries, remainingQueries, executing>>

ingestVars == <<isFollower, where, GroupBy, wal, written, call, okCalls, rdPc,
                rdPos, rdBuf, wkPc, read, observed, rowStore, doInserted, stats,
                clock, stopped, pooled, truncLog>>

filterVars == <<hasRunSubqueries, subq, subData, runs, pc, keyOf, subErr, ret>>

planVars == <<planned>>

\* What the ingest pipeline leaves alone, and what the Filter does.
handlerVars == <<queries, produced, coPc, table, coalescedQueries,
                 remainingQueries, executing>>

queryVars == <<filterVars, planVars, handlerVars>>

pipelineVars == <<ingestVars, planVars, handlerVars>>

Nil == <<>>

Some(x) == <<x>>

--------------------------------------------------------------------------
(* Bounds and input domains.                                              *)

\* Frames the table's WAL may come to hold while its reader and worker run.
MaxWal == 3

\* Frames the WALs may hold together when one more InsertRaw is offered in
\* the specification of InsertRaw alone.
MaxPrior == 1

\* Number of Include invocations of one Filter.
MaxCallers == 3

\* Frames that reach the table's WAL by replication.
MaxFeed == 2

\* Calls of recordQueued.
MaxQueued == 1

\* Capacity of the channel h.queries, and the number of queries sent on it.
MaxQueries == 1

MaxProduced == 3

\* Number of reads that return no data.
MaxEmpty == 1

\* The (ts, dims) offered to InsertRaw alone: timestamps are UnixNano (300
\* needs two bytes), dims are no dimension or {1: 1, 2: 1}.
PointSet == {[ts |-> 1, dims |-> <<>>], [ts |-> 300, dims |-> <<1, 1, 2, 1>>]}

\* Stream names as sequences of characters.
StreamNames == {<<"a">>, <<" ", "A", " ">>, <<"B", " ">>, <<"c">>}

\* The registered streams (keys of db.streams); the table reads TableStream.
TableStream == <<"a">>

Registered == {<<"a">>, <<"b">>}

\* Values of a vals map as the caller passes them.
Float64(x) == [type |-> "float64", v |-> <<x>>]

IntVal(x) == [type |-> "int", v |-> <<x>>]

Floats(s) == [type |-> "[]float64", v |-> s]

Ints(s) == [type |-> "[]int", v |-> s]

Str == [type |-> "string", v |-> <<>>]

Entry(k, val) == [key |-> k, val |-> val]

\* The vals maps offered to InsertRaw alone, entries in key order.
ValsSet ==
    { <<>>,
      <<Entry(1, IntVal(6))>>,
      <<Entry(1, Str)>>,
      <<Entry(1, Floats(<<1, 2, 3>>))>>,
      <<Entry(1, Floats(<<>>))>>,
      <<Entry(1, Float64(5)), Entry(2, Ints(<<1, 2>>))>>,
      <<Entry(1, Floats(<<1, 2>>)), Entry(2, IntVal(9)), Entry(3, Ints(<<3>>))>>,
      <<Entry(1, Str), Entry(2, Floats(<<8, 9>>)), Entry(3, Ints(<<>>))>> }

--------------------------------------------------------------------------
(* The wire encoding (package encoding) and ByteMaps (package bytemap).   *)

Width64bits == 8

Width32bits == 4

RECURSIVE BigEndian(_, _)
\* n as w bytes, most significant first.
BigEndian(n, w) ==
    IF w = 0 THEN <<>> ELSE Append(BigEndian(n \div 256, w - 1), n % 256)

RECURSIVE FromBigEndian(_)
FromBigEndian(b) ==
    IF b = <<>> THEN 0
    ELSE FromBigEndian(SubSeq(b, 1, Len(b) - 1)) * 256 + b[Len(b)]

EncodeTime(ts) == BigEndian(ts, Width64bits)

TimeFromBytes(b) == FromBigEndian(b)

WriteInt32(i) == BigEndian(i, Width32bits)

\* encoding.Read(b, n): b[:n] and b[n:]; slicing past the end panics.
ReadOk(b, n) == n <= Len(b)

ReadHead(b, n) == SubSeq(b, 1, n)

ReadRemain(b, n) == SubSeq(b, n + 1, Len(b))

RECURSIVE Build(_)
\* bytemap.Build over (key, float64) entries already in key order.
Build(entries) ==
    IF entries = <<>> THEN <<>>
    ELSE <<entries[1].key, entries[1].val>> \o Build(Tail(entries))

RECURSIVE Get(_, _)
\* ByteMap.Get(k): Some(value) or Nil when the key is absent.
Get(bm, k) ==
    IF Len(bm) < 2 THEN Nil
    ELSE IF bm[1] = k THEN Some(bm[2])
    ELSE Get(SubSeq(bm, 3, Len(bm)), k)

--------------------------------------------------------------------------
(* DB.InsertRaw and DB.doInsertRaw.                                       *)

Lower(c) == IF c = "A" THEN "a" ELSE IF c = "B" THEN "b" ELSE c

ToLower(s) == [i \in DOMAIN s |-> Lower(s[i])]

RECURSIVE TrimSpace(_)
TrimSpace(s) ==
    IF s = <<>> THEN s
    ELSE IF s[1] = " " THEN TrimSpace(Tail(s))
    ELSE IF s[Len(s)] = " " THEN TrimSpace(SubSeq(s, 1, Len(s) - 1))
    ELSE s

StreamKeyNoTrim(stream) == ToLower(stream)

\* The key InsertRaw looks up in db.streams.
StreamKey(stream) == TrimSpace(ToLower(stream))

FrameLensSwapped(ts, dims, vals) ==
    EncodeTime(ts) \o WriteInt32(Len(vals)) \o dims \o WriteInt32(Len(dims)) \o vals

\* The frame doInsertRaw hands to w.Write.
Frame(ts, dims, vals) ==
    EncodeTime(ts) \o WriteInt32(Len(dims)) \o dims \o WriteInt32(Len(vals)) \o vals

\* doInsertRaw on WAL contents w; werr is what w.Write returns.
doInsertRaw(w, ts, dims, vals, werr) ==
    LET lastErr == 0
        frame == Frame(ts, dims, vals)
        err == werr
    IN  [wal |-> IF err = 0 THEN Append(w, frame) ELSE w,
         frame |-> frame,
         err |-> IF err # 0 /\ lastErr = 0 THEN err ELSE lastErr]

SubRowsFromFirst(key, v) == [i \in 1 .. Len(v) |-> <<Entry(key, v[i])>>]

\* The rows of one vector value after its first element: one single-field
\* vals per further element.
SubRows(key, v) == [i \in 1 .. (Len(v) - 1) |-> <<Entry(key, v[i + 1])>>]

RECURSIVE Normalize(_, _)
\* The iteration of InsertRaw over vals, acc holding what it has gathered:
\* the sub rows in the order they are written, the main row's entries,
\* hasMainValue, and whether v[0] of an empty vector panicked.
Normalize(vals, acc) ==
    IF vals = <<>> \/ acc.panicked THEN acc
    ELSE LET e == vals[1]
             t == e.val.type
             v == e.val.v
         IN  IF t \in {"float64", "int"}
             THEN Normalize(Tail(vals),
                     [acc EXCEPT !.main = Append(@, Entry(e.key, v[1])),
                                 !.hasMainValue = TRUE])
             ELSE IF t \in {"[]float64", "[]int"}
             THEN IF v = <<>>
                  THEN [acc EXCEPT !.panicked = TRUE]
                  ELSE Normalize(Tail(vals),
                          [acc EXCEPT !.main = Append(@, Entry(e.key, v[1])),
                                      !.hasMainValue = TRUE,
                                      !.subs = @ \o SubRows(e.key, v)])
             ELSE Normalize(Tail(vals), acc)

NormalizeAll(vals) ==
    Normalize(vals, [subs |-> <<>>, main |-> <<>>, hasMainValue |-> FALSE,
                     panicked |-> FALSE])

\* The vals of the doInsertRaw calls of one InsertRaw, in call order: the
\* sub rows, then the main row if any value was included.
Rows(vals) ==
    LET n == NormalizeAll(vals)
    IN  n.subs \o (IF n.hasMainValue /\ ~n.panicked THEN <<n.main>> ELSE <<>>)

\* lastErr after write i failed with error werrs[i] (0: it succeeded).
LastErrKeepFirst(lastErr, err) == IF lastErr = 0 THEN err ELSE lastErr

LastErr(lastErr, err) == IF err # 0 THEN err ELSE lastErr

RECURSIVE WriteRows(_, _, _, _, _, _)
\* The doInsertRaw calls of one InsertRaw from row i on; st holds the WAL
\* contents, lastErr, the frames handed to w.Write and the points appended.
WriteRows(rows, werrs, i, ts, dims, st) ==
    IF i > Len(rows) THEN st
    ELSE LET r == doInsertRaw(st.wal, ts, dims, Build(rows[i]), werrs[i])
         IN  WriteRows(rows, werrs, i + 1, ts, dims,
                [wal |-> r.wal,
                 lastErr |-> LastErr(st.lastErr, r.err),
                 writes |-> Append(st.writes, r.frame),
                 pts |-> IF Len(r.wal) > Len(st.wal)
                         THEN Append(st.pts, [ts |-> ts, dims |-> dims,
                                              vals |-> Build(rows[i])])
                         ELSE st.pts])

NoCall == [stream |-> <<>>, ts |-> 0, dims |-> <<>>, vals |-> <<>>,
           outcome |-> "none", err |-> 0, writes |-> <<>>, werrs |-> <<>>,
           before |-> [s \in Registered |-> <<>>]]

ErrFollower == 1

ErrNoWal == 2

\* The error the i-th w.Write of a call returns when it fails.
WriteErr(i) == 10 + i

\* What the w.Write calls of a call of n writes may return.
WriteErrs(n) ==
    {[i \in 1 .. n |-> IF i \in F THEN WriteErr(i) ELSE 0] : F \in SUBSET (1 .. n)}

\* InsertRaw(stream, ts, dims, vals); werrs[i] is what the i-th w.Write of
\* the call returns.
InsertRaw(stream, ts, dims, vals, werrs) ==
    LET key == StreamKey(stream)
        rec == [NoCall EXCEPT !.stream = stream, !.ts = ts, !.dims = dims,
                              !.vals = vals, !.before = wal]
    IN  /\ UNCHANGED <<isFollower, where, GroupBy, rdPc, rdPos, rdBuf, wkPc, read,
                       observed, rowStore, doInserted, stats, clock, stopped,
                       pooled, truncLog, queryVars>>
        /\ IF isFollower
           THEN /\ werrs = <<>>
                /\ call' = [rec EXCEPT !.outcome = "error", !.err = ErrFollower]
                /\ UNCHANGED <<wal, written, okCalls>>
           ELSE IF key \notin DOMAIN wal
           THEN /\ werrs = <<>>
                /\ call' = [rec EXCEPT !.outcome = "error", !.err = ErrNoWal]
                /\ UNCHANGED <<wal, written, okCalls>>
           ELSE \E n \in {NormalizeAll(vals)} :
                \E rows \in {Rows(vals)} :
                /\ Len(werrs) = Len(rows)
                /\ \E st \in {WriteRows(rows, werrs, 1, ts, dims,
                                         [wal |-> wal[key], lastErr |-> 0,
                                          writes |-> <<>>, pts |-> <<>>])} :
                       /\ wal' = [wal EXCEPT ![key] = st.wal]
                       /\ written' = [written EXCEPT ![key] = @ \o
                             [i \in DOMAIN st.pts |->
                                [ts |-> st.pts[i].ts, dims |-> st.pts[i].dims,
                                 vals |-> st.pts[i].vals,
                                 ok |-> ~n.panicked /\ st.lastErr = 0]]]
                       /\ call' = [rec EXCEPT
                             !.outcome = IF n.panicked THEN "panic"
                                         ELSE IF st.lastErr # 0 THEN "error"
                                         ELSE "ok",
                             !.err = IF n.panicked THEN 0 ELSE st.lastErr,
                             !.writes = st.writes,
                             !.werrs = werrs]
                       /\ okCalls' = IF ~n.panicked /\ st.lastErr = 0 /\ key = TableStream
                                     THEN okCalls + 1 ELSE okCalls

--------------------------------------------------------------------------
(* table.processWALInserts, the WAL reader.                               *)

WalReadNewest ==
    /\ rdPc = "read"
    /\ rdPos < Len(wal[TableStream])
    /\ rdPos' = rdPos + 1
    /\ rdBuf' = Some([data |-> Some(wal[TableStream][Len(wal[TableStream])]),
                      offset |-> Len(wal[TableStream]), source |-> 0])
    /\ rdPc' = "send"
    /\ UNCHANGED <<isFollower, where, GroupBy, wal, written, call, okCalls, wkPc,
                   read, observed, rowStore, doInserted, stats, clock, stopped,
                   pooled, truncLog, queryVars>>

\* data, err := t.wal.Read() returns the next frame; the reader then holds
\* &walRead{data, t.wal.Offset(), 0} to send on the channel.
WalRead ==
    /\ rdPc = "read"
    /\ rdPos < Len(wal[TableStream])
    /\ rdPos' = rdPos + 1
    /\ rdBuf' = Some([data |-> Some(wal[TableStream][rdPos + 1]),
                      offset |-> rdPos + 1, source |-> 0])
    /\ rdPc' = "send"
    /\ UNCHANGED <<isFollower, where, GroupBy, wal, written, call, okCalls, wkPc,
                   read, observed, rowStore, doInserted, stats, clock, stopped,
                   pooled, truncLog, queryVars>>

\* data, err := t.wal.Read() returns nil data and no error: the reader
\* sends &walRead{nil, t.wal.Offset(), 0}, the offset being where it was.
WalReadEmpty ==
    /\ rdPc = "read"
    /\ Len(observed) - rdPos < MaxEmpty
    /\ rdBuf' = Some([data |-> Nil, offset |-> rdPos, source |-> 0])
    /\ rdPc' = "send"
    /\ UNCHANGED <<isFollower, where, GroupBy, wal, written, call, okCalls, wkPc,
                   rdPos, read, observed, rowStore, doInserted, stats, clock,
                   stopped, pooled, truncLog, queryVars>>

\* t.wal.Read() returns an error: t.db.Panic ends the reader.
WalReadFails ==
    /\ rdPc = "read"
    /\ rdPc' = "panicked"
    /\ UNCHANGED <<isFollower, where, GroupBy, wal, written, call, okCalls, rdPos,
                   rdBuf, wkPc, read, observed, rowStore, doInserted, stats, clock,
                   stopped, pooled, truncLog, queryVars>>

--------------------------------------------------------------------------
(* table.insert, table.skip and table.doInsert.                           *)

\* The values t.truncateBefore() may return.
TruncateBefore == {0, 2}

NumPartitions == 2

Partition == 0

RECURSIVE SumBytes(_)
SumBytes(b) == IF b = <<>> THEN 0 ELSE b[1] + SumBytes(Tail(b))

\* db.inPartition(h, dims, t.PartitionBy, t.db.opts.Partition).
inPartition(dims) == SumBytes(dims) % NumPartitions = Partition

\* where.Eval(dims) for the WHERE "dimension k = v".
WhereEval(w, dims) == Get(dims, w.k) = Some(w.v)

\* clock.Advance(ts).
Advance(c, ts) == IF ts > c THEN ts ELSE c

RECURSIVE Reslice(_, _)
\* The (name, value) pairs of the group-by dimensions that dims holds.
Reslice(groupBy, dims) ==
    IF groupBy = <<>> THEN <<>>
    ELSE LET val == Get(dims, groupBy[1])
         IN  (IF val # Nil THEN <<Entry(groupBy[1], val[1])>> ELSE <<>>)
             \o Reslice(Tail(groupBy), dims)

\* The row key doInsert builds.
RowKey(groupBy, dims) ==
    IF Len(groupBy) = 0 THEN dims ELSE Build(Reslice(groupBy, dims))

\* encoding.NewTSParams(ts, vals).
NewTSParams(ts, vals) == [ts |-> ts, vals |-> vals]

\* ts.Before(t.truncateBefore()), tb being what truncateBefore returned.
BeforeFlipped(ts, tb) == tb < ts

Before(ts, tb) == ts < tb

\* t.stats.FilteredPoints++ under statsMutex.
recordFilteredDropped(st) == st

recordFiltered(st) == [st EXCEPT !.FilteredPoints = @ + 1]

recordQueuedUndone(st) == [st EXCEPT !.QueuedPoints = @ - 1]

\* t.stats.QueuedPoints++ under statsMutex.
recordQueued(st) == [st EXCEPT !.QueuedPoints = @ + 1]

\* t.stats.InsertedPoints++ under statsMutex.
recordInsertedDropped(st) == st

recordInserted(st) == [st EXCEPT !.InsertedPoints = @ + 1]

\* What the table holds that an insert reads and writes.
TableState == [rowStore |-> rowStore, stats |-> stats, clock |-> clock,
               doInserted |-> doInserted]

\* &insert{nil, nil, nil, offset, source}
SkipMarker(offset, source) ==
    [key |-> Nil, tsparams |-> Nil, dims |-> Nil, offset |-> offset, source |-> source]

\* t.skip(offset, source)
skipDropped(t, offset, source) == t

\* t.rowStore.insert(&insert{nil, nil, nil, offset, source})
skip(t, offset, source) ==
    [t EXCEPT !.rowStore = Append(@, SkipMarker(offset, source))]

doInsertAdvanceFirst(t, ts, dims, vals, offset, source) ==
    LET t0 == [t EXCEPT !.doInserted = Append(@, [ts |-> ts, dims |-> dims,
                                                  vals |-> vals, offset |-> offset]),
                        !.clock = Advance(@, ts)]
    IN  IF where # Nil /\ ~WhereEval(where[1], dims)
        THEN [t |-> [t0 EXCEPT !.stats = recordFiltered(@)], ok |-> FALSE]
        ELSE [t |-> [t0 EXCEPT
                       !.rowStore = Append(@, [key |-> Some(RowKey(GroupBy, dims)),
                                               tsparams |-> Some(NewTSParams(ts, vals)),
                                               dims |-> Some(dims),
                                               offset |-> offset,
                                               source |-> source]),
                       !.stats = recordInserted(@)],
              ok |-> TRUE]

\* t.doInsert(ts, dims, vals, offset, source): the table after the call and
\* the value returned.
doInsert(t, ts, dims, vals, offset, source) ==
    LET t0 == [t EXCEPT !.doInserted = Append(@, [ts |-> ts, dims |-> dims,
                                                  vals |-> vals, offset |-> offset])]
    IN  IF where # Nil /\ ~WhereEval(where[1], dims)
        THEN [t |-> [t0 EXCEPT !.stats = recordFiltered(@)], ok |-> FALSE]
        ELSE [t |-> [t0 EXCEPT
                       !.clock = Advance(@, ts),
                       !.rowStore = Append(@, [key |-> Some(RowKey(GroupBy, dims)),
                                               tsparams |-> Some(NewTSParams(ts, vals)),
                                               dims |-> Some(dims),
                                               offset |-> offset,
                                               source |-> source]),
                       !.stats = recordInserted(@)],
              ok |-> TRUE]

outOfPartitionAnywhere(follower, dims) == ~inPartition(dims)

\* isFollower && !t.db.inPartition(h, dims, t.PartitionBy, t.db.opts.Partition)
outOfPartition(follower, dims) == follower /\ ~inPartition(dims)

recoveredAsInserted(t) == [t |-> t, ok |-> TRUE]

\* The deferred recover of t.insert after a panic: the table as it was and
\* the zero value false returned.
recovered(t) == [t |-> t, ok |-> FALSE]

\* t.insert(data, isFollower, h, offset, source) when t.truncateBefore()
\* returns tb: the table after the call and the value returned.  A read
\* past the end of data panics; the deferred recover makes insert return
\* false.
insert(t, data, follower, offset, source, tb) ==
    IF ~ReadOk(data, Width64bits) THEN recovered(t)
    ELSE
        LET tsd == ReadHead(data, Width64bits)
            r1  == ReadRemain(data, Width64bits)
            ts  == TimeFromBytes(tsd)
        IN  IF Before(ts, tb) THEN [t |-> t, ok |-> FALSE]
            ELSE IF ~ReadOk(r1, Width32bits) THEN recovered(t)
            ELSE
            LET dimsLen == FromBigEndian(ReadHead(r1, Width32bits))
                r2 == ReadRemain(r1, Width32bits)
            IN  IF ~ReadOk(r2, dimsLen) THEN recovered(t)
                ELSE
                LET dims == ReadHead(r2, dimsLen)
                    r3 == ReadRemain(r2, dimsLen)
                IN  IF outOfPartition(follower, dims) THEN [t |-> t, ok |-> FALSE]
                    ELSE IF ~ReadOk(r3, Width32bits) THEN recovered(t)
                    ELSE
                    LET valsLen == FromBigEndian(ReadHead(r3, Width32bits))
                        r4 == ReadRemain(r3, Width32bits)
                    IN  IF ~ReadOk(r4, valsLen) THEN recovered(t)
                        ELSE doInsert(t, ts, dims, ReadHead(r4, valsLen), offset, source)

--------------------------------------------------------------------------
(* table.processInserts, the insert worker.                               *)

WorkerStopContinues ==
    /\ wkPc = "select"
    /\ stopped
    /\ UNCHANGED vars

\* select: case <-stop: return
WorkerStop ==
    /\ wkPc = "select"
    /\ stopped
    /\ wkPc' = "returned"
    /\ UNCHANGED <<isFollower, where, GroupBy, wal, written, call, okCalls, rdPc,
                   rdPos, rdBuf, read, observed, rowStore, doInserted, stats, clock,
                   stopped, pooled, truncLog, queryVars>>

\* select: case read := <-in, the rendezvous with the reader's send.  A
\* read without data is ignored.
WorkerReceive ==
    /\ wkPc = "select"
    /\ rdPc = "send"
    /\ read' = rdBuf
    /\ rdBuf' = Nil
    /\ rdPc' = "read"
    /\ observed' = Append(observed, rdBuf[1].offset)
    /\ wkPc' = IF rdBuf[1].data = Nil THEN "select" ELSE "insert"
    /\ UNCHANGED <<isFollower, where, GroupBy, wal, written, call, okCalls, rdPos,
                   rowStore, doInserted, stats, clock, stopped, pooled, truncLog,
                   queryVars>>

\* The rest of the loop body for the frame received: t.insert, t.skip when
\* it returned false, and the buffer's return to db.walBuffers.
WorkerInsert ==
    /\ wkPc = "insert"
    /\ \E tb \in TruncateBefore :
          /\ truncLog' = Append(truncLog, tb)
          /\ \E r \in {insert(TableState, read[1].data[1], isFollower,
                               read[1].offset, read[1].source, tb)} :
             \E t \in {IF r.ok THEN r.t
                        ELSE skip(r.t, read[1].offset, read[1].source)} :
                /\ rowStore' = t.rowStore
                /\ stats' = t.stats
                /\ clock' = t.clock
                /\ doInserted' = t.doInserted
    /\ pooled' = pooled + 1
    /\ wkPc' = "select"
    /\ UNCHANGED <<isFollower, where, GroupBy, wal, written, call, okCalls, rdPc,
                   rdPos, rdBuf, read, observed, stopped, queryVars>>

\* The stop channel is closed.
Close ==
    /\ ~stopped
    /\ stopped' = TRUE
    /\ UNCHANGED <<isFollower, where, GroupBy, wal, written, call, okCalls, rdPc,
                   rdPos, rdBuf, wkPc, read, observed, rowStore, doInserted, stats,
                   clock, pooled, truncLog, queryVars>>

--------------------------------------------------------------------------
(* The Include closure of the Filter that Plan builds for a WHERE.  The   *)
(* WHERE is "the key is among the sub-query's results".                   *)

Callers == 1 .. MaxCallers

\* The keys of the rows that pass through the Filter.
Keys == {1, 2}

\* The rows the sub-query yields when it runs to its end.
SubQueryRows == {1}

\* What runSubQueries(ctx) may return: nil, core.ErrDeadlineExceeded or
\* another error.
SubQueryErrs == {"nil", "deadline", "other"}

NoRet == [called |-> FALSE, ok |-> FALSE, err |-> "nil", subq |-> "idle", ran |-> FALSE,
          evaluated |-> FALSE, key |-> 0, subErr |-> "none"]

InitFilter ==
    /\ hasRunSubqueries = 0
    /\ subq = "idle"
    /\ subData = {}
    /\ runs = 0
    /\ pc = [c \in Callers |-> "idle"]
    /\ keyOf = [c \in Callers |-> 1]
    /\ subErr = [c \in Callers |-> "none"]
    /\ ret = [c \in Callers |-> NoRet]

CompareAndSwapNoStore(latch) == [latch |-> latch, swapped |-> latch = 0]

CompareAndSwapToggles(latch) == [latch |-> 1 - latch, swapped |-> latch = 0]

\* atomic.CompareAndSwapInt32(&hasRunSubqueries, 0, 1): the latch after the
\* call and whether it swapped.
CompareAndSwap(latch) ==
    [latch |-> IF latch = 0 THEN 1 ELSE latch, swapped |-> latch = 0]

\* query.Where.Eval(key), as result != nil && result.(bool).
QueryWhereEval(k) == k \in subData

\* Caller c invokes Include(ctx, k): the compare-and-swap, and for the
\* caller that swapped the entry into runSubQueries(ctx).
Include(c, k) ==
    /\ pc[c] = "idle"
    /\ keyOf' = [keyOf EXCEPT ![c] = k]
    /\ subErr' = [subErr EXCEPT ![c] = "none"]
    /\ \E cas \in {CompareAndSwap(hasRunSubqueries)} :
          /\ hasRunSubqueries' = cas.latch
          /\ IF cas.swapped
             THEN /\ pc' = [pc EXCEPT ![c] = "runSubQueries"]
                  /\ subq' = "running"
                  /\ runs' = runs + 1
             ELSE /\ pc' = [pc EXCEPT ![c] = "eval"]
                  /\ UNCHANGED <<subq, runs>>
    /\ UNCHANGED <<subData, ret, pipelineVars>>

FatalAny(err) == err # "nil"

\* Whether the closure returns err without evaluating the WHERE.
Fatal(err) == err # "nil" /\ err # "deadline"

\* runSubQueries(ctx) returns err to caller c, having realised the rows in
\* data: all of them when it succeeded.
RunSubQueriesReturns(c, err, data) ==
    /\ pc[c] = "runSubQueries"
    /\ err = "nil" => data = SubQueryRows
    /\ subq' = "returned"
    /\ subData' = data
    /\ subErr' = [subErr EXCEPT ![c] = err]
    /\ IF Fatal(err)
       THEN /\ ret' = [ret EXCEPT ![c] = [called |-> TRUE, ok |-> FALSE, err |-> err,
                                          subq |-> "returned", ran |-> TRUE,
                                          evaluated |-> FALSE, key |-> keyOf[c],
                                          subErr |-> err]]
            /\ pc' = [pc EXCEPT ![c] = "idle"]
       ELSE /\ pc' = [pc EXCEPT ![c] = "eval"]
            /\ UNCHANGED ret
    /\ UNCHANGED <<hasRunSubqueries, runs, keyOf, pipelineVars>>

\* Caller c evaluates the WHERE against its key and returns the result.
EvalWhere(c) ==
    /\ pc[c] = "eval"
    /\ ret' = [ret EXCEPT ![c] = [called |-> TRUE, ok |-> QueryWhereEval(keyOf[c]),
                                  err |-> "nil", subq |-> subq,
                                  ran |-> subErr[c] # "none",
                                  evaluated |-> TRUE, key |-> keyOf[c],
                                  subErr |-> subErr[c]]]
    /\ pc' = [pc EXCEPT ![c] = "idle"]
    /\ UNCHANGED <<hasRunSubqueries, subq, subData, runs, keyOf, subErr, pipelineVars>>

NextFilter ==
    \/ \E c \in Callers, k \in Keys : Include(c, k)
    \/ \E c \in Callers, err \in SubQueryErrs, data \in SUBSET SubQueryRows :
          RunSubQueriesReturns(c, err, data)
    \/ \E c \in Callers : EvalWhere(c)

--------------------------------------------------------------------------
(* Plan: the pipeline built for one parsed query.  A time is an integer,  *)
(* 0 being the zero time; a pipeline is the sequence of its operators in  *)
(* the order they were created, each with the index of the operator it    *)
(* was connected to (0 for a table).                                      *)

\* opts.Now(query.From).
Now == {6}

\* What source.GetAsOf(), GetUntil() and GetResolution() return.
Sources == [AsOf : {0, 5}, Until : {7, 8}, Resolution : {1, 2}]

\* The queries sql.Parse yields for the FROM sub-query of a query.
SubQueries ==
    { [parseErr |-> (pe = 1), FromSubQuery |-> Nil, AsOf |-> 0, AsOfOffset |-> 0,
       Until |-> 0, UntilOffset |-> 0, Resolution |-> 0, Where |-> w,
       GroupByAll |-> TRUE, HasSpecificFields |-> FALSE, OrderBy |-> <<>>,
       Offset |-> 0, Limit |-> l] :
         pe \in {0, 1}, w \in {"nil"}, l \in {0, 3} }

\* The queries sql.Parse yields: Where is "nil", a WHERE whose sub-queries
\* plan ("ok") or one whose sub-queries fail to plan ("planErr").
Queries ==
    [parseErr : {FALSE}, FromSubQuery : {Nil} \cup {Some(q) : q \in SubQueries},
     AsOf : {0, 5}, AsOfOffset : {0, -1}, Until : {0, 7}, UntilOffset : {0, 1},
     Resolution : {0, 2}, Where : {"nil", "ok", "planErr"},
     GroupByAll : BOOLEAN, HasSpecificFields : BOOLEAN,
     OrderBy : {<<>>, <<"x">>}, Offset : {-1, 0, 2}, Limit : {-1, 0, 3}]
    \cup {q \in SubQueries : q.parseErr}

NoPlan == [called |-> FALSE, query |-> Nil, source |-> Nil, now |-> 0,
           err |-> "nil", ops |-> <<>>, flat |-> 0]

InitPlan == planned = NoPlan

\* x.Connect(up) for a new operator x of the given kind and parameters.
Connect(ops, kind, arg, up) == Append(ops, [op |-> kind, arg |-> arg, upstream |-> up])

\* now.Add(offset).
Add(now, offset) == now + offset

GroupNeededAlways(asOfChanged, untilChanged, resolutionChanged, query) == TRUE

\* The condition under which Plan builds a Group.
GroupNeeded(asOfChanged, untilChanged, resolutionChanged, query) ==
    asOfChanged \/ untilChanged \/ resolutionChanged \/ ~query.GroupByAll
       \/ query.HasSpecificFields

\* query.Offset > 0 and query.Limit > 0.
Positive(n) == n > 0

SortLast(ops, query) ==
    LET ops1 == IF Positive(query.Offset)
                THEN Connect(ops, "Offset", <<query.Offset>>, Len(ops)) ELSE ops
        ops2 == IF Positive(query.Limit)
                THEN Connect(ops1, "Limit", <<query.Limit>>, Len(ops1)) ELSE ops1
    IN  IF Len(query.OrderBy) > 0
        THEN Connect(ops2, "Sort", query.OrderBy, Len(ops2)) ELSE ops2

\* Sort, Offset and Limit appended to the pipeline that ends in Flatten.
OrderOffsetLimit(ops, query) ==
    LET ops1 == IF Len(query.OrderBy) > 0
                THEN Connect(ops, "Sort", query.OrderBy, Len(ops)) ELSE ops
        ops2 == IF Positive(query.Offset)
                THEN Connect(ops1, "Offset", <<query.Offset>>, Len(ops1)) ELSE ops1
    IN  IF Positive(query.Limit)
        THEN Connect(ops2, "Limit", <<query.Limit>>, Len(ops2)) ELSE ops2

RECURSIVE Plan(_, _, _)
\* Plan(sqlString, opts) for the query sql.Parse yields, the source src that
\* opts.GetTable or the planned sub-query gives, and opts.Now: the error
\* returned, the operators created and the one returned.
Plan(query, src, now) ==
    IF query.parseErr THEN [err |-> "parse", ops |-> <<>>, flat |-> 0]
    ELSE
    LET sub == IF query.FromSubQuery # Nil
               THEN Plan(query.FromSubQuery[1], src, now)
               ELSE [err |-> "nil", ops |-> <<>>, flat |-> 0]
    IN  IF sub.err # "nil" THEN [err |-> sub.err, ops |-> <<>>, flat |-> 0]
        ELSE
        LET source == IF query.FromSubQuery # Nil
                      THEN Connect(sub.ops, "Unflatten", <<>>, sub.flat)
                      ELSE <<[op |-> "Table", arg |-> <<>>, upstream |-> 0]>>
            AsOf == IF query.AsOfOffset # 0 THEN Add(now, query.AsOfOffset)
                    ELSE query.AsOf
            Until == IF query.UntilOffset # 0 THEN Add(now, query.UntilOffset)
                     ELSE query.Until
            asOfChanged == AsOf # 0 /\ AsOf # src.AsOf
            untilChanged == Until # 0 /\ Until # src.Until
            resolutionChanged == query.Resolution # 0
                                    /\ query.Resolution # src.Resolution
        IN  IF query.Where = "planErr"
            THEN [err |-> "subQueryPlan", ops |-> <<>>, flat |-> 0]
            ELSE
            LET filtered == IF query.Where # "nil"
                            THEN Connect(source, "Filter", <<>>, Len(source))
                            ELSE source
                grouped == IF GroupNeeded(asOfChanged, untilChanged,
                                          resolutionChanged, query)
                           THEN Connect(filtered, "Group",
                                        <<AsOf, Until, query.Resolution>>,
                                        Len(filtered))
                           ELSE filtered
                flatten == Connect(grouped, "Flatten", <<>>, Len(grouped))
                flat == OrderOffsetLimit(flatten, query)
            IN  [err |-> "nil", ops |-> flat, flat |-> Len(flat)]

\* One call of Plan.
PlanQuery ==
    /\ ~planned.called
    /\ \E query \in Queries, src \in Sources, now \in Now :
          \E r \in {Plan(query, src, now)} :
              planned' = [called |-> TRUE, query |-> Some(query), source |-> Some(src),
                          now |-> now, err |-> r.err, ops |-> r.ops, flat |-> r.flat]
    /\ UNCHANGED <<ingestVars, filterVars, handlerVars>>

\* The caller has the pipeline; the record of the call is dropped.
PlanReturns ==
    /\ planned.called
    /\ planned' = NoPlan
    /\ UNCHANGED <<ingestVars, filterVars, handlerVars>>

NextPlan == PlanQuery \/ PlanReturns

--------------------------------------------------------------------------
(* handler.query, handler.coalesceQueries and handler.processQueries.  A  *)
(* query is its table (parsed.From) and its immediate flag.  h.queries is *)
(* a channel of capacity MaxQueries; h.coalescedQueries is received by    *)
(* processQueries alone.                                                  *)

HandlerQueries == [From : {"a", "b"}, immediate : BOOLEAN]

InitHandler ==
    /\ queries = <<>>
    /\ produced = 0
    /\ coPc = "range"
    /\ table = Nil
    /\ coalescedQueries = <<>>
    /\ remainingQueries = <<>>
    /\ executing = Nil

\* h.queries <- &query{sqlString, parsed, immediate, ce}
Produce ==
    /\ produced < MaxProduced
    /\ Len(queries) < MaxQueries
    /\ \E q \in HandlerQueries : queries' = Append(queries, q)
    /\ produced' = produced + 1
    /\ UNCHANGED <<coPc, table, coalescedQueries, remainingQueries, executing,
                   ingestVars, filterVars, planVars>>

\* Where coalesceQueries goes when it leaves the coalesce loop: to the
\* re-queue loop when there is a remaining query, else to the send of the
\* batch.
AfterCoalesce(remaining) == IF remaining = <<>> THEN "send" ELSE "requeue"

\* for q := range h.queries
CoalesceNext ==
    /\ coPc = "range"
    /\ queries # <<>>
    /\ LET q == Head(queries)
       IN  /\ coalescedQueries' = <<q>>
           /\ remainingQueries' = <<>>
           /\ table' = Some(q.From)
           /\ coPc' = IF q.immediate THEN AfterCoalesce(<<>>) ELSE "loop"
    /\ queries' = Tail(queries)
    /\ UNCHANGED <<produced, executing, ingestVars, filterVars, planVars>>

\* case query := <-h.queries
CoalesceMore ==
    /\ coPc = "loop"
    /\ queries # <<>>
    /\ LET query == Head(queries)
           same == table = Some(query.From)
           remaining == IF same THEN remainingQueries
                                ELSE Append(remainingQueries, query)
       IN  /\ coalescedQueries' = IF same THEN Append(coalescedQueries, query)
                                          ELSE coalescedQueries
           /\ remainingQueries' = remaining
           /\ coPc' = IF query.immediate THEN AfterCoalesce(remaining) ELSE "loop"
    /\ queries' = Tail(queries)
    /\ UNCHANGED <<produced, table, executing, ingestVars, filterVars, planVars>>

\* case <-time.After(5 * time.Second)
CoalesceTimeout ==
    /\ coPc = "loop"
    /\ coPc' = AfterCoalesce(remainingQueries)
    /\ UNCHANGED <<queries, produced, table, coalescedQueries, remainingQueries,
                   executing, ingestVars, filterVars, planVars>>

\* h.queries <- query, for each remaining query in turn
Requeue ==
    /\ coPc = "requeue"
    /\ Len(queries) < MaxQueries
    /\ queries' = Append(queries, Head(remainingQueries))
    /\ remainingQueries' = Tail(remainingQueries)
    /\ coPc' = AfterCoalesce(Tail(remainingQueries))
    /\ UNCHANGED <<produced, table, coalescedQueries, executing, ingestVars,
                   filterVars, planVars>>

\* h.coalescedQueries <- coalescedQueries, received by processQueries
SendCoalesced ==
    /\ coPc = "send"
    /\ executing = Nil
    /\ executing' = Some(coalescedQueries)
    /\ coPc' = "range"
    /\ table' = Nil
    /\ coalescedQueries' = <<>>
    /\ UNCHANGED <<queries, produced, remainingQueries, ingestVars, filterVars,
                   planVars>>

\* wg.Wait() returns: every query of the batch has been executed
QueriesDone ==
    /\ executing # Nil
    /\ executing' = Nil
    /\ UNCHANGED <<queries, produced, coPc, table, coalescedQueries,
                   remainingQueries, ingestVars, filterVars, planVars>>

coalesceQueries ==
    CoalesceNext \/ CoalesceMore \/ CoalesceTimeout \/ Requeue \/ SendCoalesced

NextHandler == Produce \/ coalesceQueries \/ QueriesDone

--------------------------------------------------------------------------
(* Specifications of the ingest core.                                     *)

\* The table definitions: no WHERE and no GROUP BY, or WHERE "dimension 1
\* is 1" with GROUP BY dimension 1.
TableConfigs ==
    { [where |-> Nil, GroupBy |-> <<>>],
      [where |-> Some([k |-> 1, v |-> 1]), GroupBy |-> <<1>>] }

InitIngest ==
    /\ isFollower \in BOOLEAN
    /\ \E c \in TableConfigs : where = c.where /\ GroupBy = c.GroupBy
    /\ wal = [s \in Registered |-> <<>>]
    /\ written = [s \in Registered |-> <<>>]
    /\ call = NoCall
    /\ okCalls = 0
    /\ rdPc = "read"
    /\ rdPos = 0
    /\ rdBuf = Nil
    /\ wkPc = "select"
    /\ read = Nil
    /\ observed = <<>>
    /\ rowStore = <<>>
    /\ doInserted = <<>>
    /\ stats = [FilteredPoints |-> 0, InsertedPoints |-> 0, QueuedPoints |-> 0]
    /\ clock = 0
    /\ stopped = FALSE
    /\ pooled = 0
    /\ truncLog = <<>>

Init == InitIngest /\ InitFilter /\ InitPlan /\ InitHandler

\* The points offered to InsertRaw while the table's reader and worker run.
TableNames == {<<" ", "A", " ">>}

TablePoints == {[ts |-> 1, dims |-> <<1, 1>>], [ts |-> 300, dims |-> <<1, 2, 2, 1>>]}

TableVals == {<<Entry(1, IntVal(6))>>, <<Entry(1, Floats(<<1, 2>>))>>}

Insert ==
    \E stream \in TableNames, p \in TablePoints, vals \in TableVals :
        \E werrs \in WriteErrs(Len(Rows(vals))) \cup {<<>>} :
            /\ Len(wal[TableStream]) + Len(Rows(vals)) <= MaxWal
            /\ InsertRaw(stream, p.ts, p.dims, vals, werrs)

Next ==
    \/ Insert
    \/ WalRead
    \/ WalReadFails
    \/ WorkerReceive
    \/ WorkerInsert
    \/ WorkerStop
    \/ Close

Spec == Init /\ [][Next]_vars

--------------------------------------------------------------------------
(* Properties of the insert worker.                                       *)

\* The point the frame at offset o of the table's WAL was written from.
Point(o) == written[TableStream][o]

\* The worker's step that processes the frame it holds.
Processing == wkPc = "insert" /\ wkPc' = "select"

\* The frame at offset o, processed when truncateBefore() returned tb, was
\* past truncation and in the partition.
Decoded(o, tb) ==
    /\ Point(o).ts >= tb
    /\ isFollower => inPartition(Point(o).dims)

\* C1: processing a frame whose timestamp is before truncateBefore() hands
\* the row store exactly one entry, the skip marker with the frame's offset
\* and source, and changes no counter.
C1_StaleFrameSkipped ==
    [][(Processing /\ Point(read[1].offset).ts < truncLog'[Len(truncLog')])
         => /\ rowStore' = Append(rowStore,
                              [key |-> Nil, tsparams |-> Nil, dims |-> Nil,
                               offset |-> read[1].offset, source |-> read[1].source])
            /\ stats'.InsertedPoints = stats.InsertedPoints]_vars

\* A stale frame has been skipped after another frame was inserted.
C1_Witness ==
    /\ wkPc = "select"
    /\ truncLog # <<>>
    /\ Len(rowStore) = Len(truncLog)
    /\ Point(Len(truncLog)).ts < truncLog[Len(truncLog)]
    /\ rowStore[Len(rowStore)].key = Nil
    /\ rowStore[Len(rowStore)].offset = Len(truncLog)
    /\ stats.InsertedPoints > 0

\* C2: processing a frame that passes the truncation and partition checks
\* and that the table's WHERE rejects hands the row store exactly one entry,
\* the skip marker with the frame's offset and source, adds one to
\* FilteredPoints and leaves InsertedPoints alone.
C2_FilteredFrameSkipped ==
    [][(/\ Processing
        /\ Decoded(read[1].offset, truncLog'[Len(truncLog')])
        /\ where # Nil
        /\ Get(Point(read[1].offset).dims, where[1].k) # Some(where[1].v))
         => /\ rowStore' = Append(rowStore,
                              [key |-> Nil, tsparams |-> Nil, dims |-> Nil,
                               offset |-> read[1].offset, source |-> read[1].source])
            /\ stats'.FilteredPoints = stats.FilteredPoints + 1
            /\ stats'.InsertedPoints = stats.InsertedPoints]_vars

\* A frame has been filtered by the WHERE after another was inserted.
C2_Witness ==
    /\ wkPc = "select"
    /\ truncLog # <<>>
    /\ where # Nil
    /\ Decoded(Len(truncLog), truncLog[Len(truncLog)])
    /\ Get(Point(Len(truncLog)).dims, where[1].k) # Some(where[1].v)
    /\ rowStore[Len(rowStore)].key = Nil
    /\ rowStore[Len(rowStore)].offset = Len(truncLog)
    /\ stats.FilteredPoints > 0
    /\ stats.InsertedPoints > 0

\* C3: the worker receives the frames of the table's WAL in the order they
\* were appended, each with the data appended at its offset, and the row
\* store receives their offsets (real inserts and skip markers together,
\* all of source 0) in that same order, never one lower than an earlier one.
C3_AppendOrder ==
    /\ observed = [i \in 1 .. Len(observed) |-> i]
    /\ [i \in 1 .. Len(rowStore) |-> rowStore[i].offset]
          = [i \in 1 .. Len(rowStore) |-> i]
    /\ \A i \in 1 .. Len(rowStore) : rowStore[i].source = 0
    /\ Len(rowStore) <= Len(observed)
    /\ Len(observed) <= Len(wal[TableStream])
    /\ rdBuf # Nil => rdBuf[1].data = Some(wal[TableStream][rdBuf[1].offset])
    /\ read # Nil => read[1].data = Some(wal[TableStream][read[1].offset])

\* Three frames have reached the row store, a skip marker and a real insert
\* among them.
C3_Witness ==
    /\ Len(rowStore) >= 3
    /\ \E i, j \in 1 .. Len(rowStore) :
          /\ i < j
          /\ rowStore[i].key = Nil
          /\ rowStore[j].key # Nil

\* Every frame of the table's WAL has been read and processed.
Drained ==
    /\ rdPc = "read"
    /\ rdPos = Len(wal[TableStream])
    /\ wkPc = "select"
    /\ Len(truncLog) = Len(wal[TableStream])

\* C6 as stated: once the frames of N successful inserts, and no others,
\* have been read and processed, InsertedPoints is N.
C6_OnePerCall ==
    (Drained /\ \A o \in 1 .. Len(wal[TableStream]) : Point(o).ok)
        => stats.InsertedPoints = okCalls

\* The processed frame at offset o passed the truncation, partition and
\* WHERE checks.
Admitted(o) ==
    /\ Decoded(o, truncLog[o])
    /\ where # Nil => Get(Point(o).dims, where[1].k) = Some(where[1].v)

\* C6, amended: InsertedPoints is the number of frames processed so far that
\* passed the truncation, partition and WHERE checks: one per frame, not
\* one per call.
C6_OnePerAdmittedFrame ==
    stats.InsertedPoints = Cardinality({o \in 1 .. Len(truncLog) : Admitted(o)})

\* One successful insert of a two-element vector has been processed and has
\* counted two points.
C6_Witness ==
    /\ Drained
    /\ okCalls = 1
    /\ \A o \in 1 .. Len(wal[TableStream]) : Point(o).ok
    /\ stats.InsertedPoints = 2

\* C10: every doInsert call receives exactly the ts, dims and vals that
\* doInsertRaw wrote into the frame at the call's offset, and every frame
\* past the truncation and partition checks is decoded into such a call.
C10_RoundTrip ==
    /\ \A i \in 1 .. Len(doInserted) :
          /\ doInserted[i].offset \in 1 .. Len(written[TableStream])
          /\ doInserted[i].ts = Point(doInserted[i].offset).ts
          /\ doInserted[i].dims = Point(doInserted[i].offset).dims
          /\ doInserted[i].vals = Point(doInserted[i].offset).vals
    /\ \A o \in 1 .. Len(truncLog) :
          Decoded(o, truncLog[o]) => \E i \in 1 .. Len(doInserted) : doInserted[i].offset = o

\* Frames of both timestamps and both dims have been decoded into doInsert.
C10_Witness ==
    /\ \E i \in 1 .. Len(doInserted) :
          doInserted[i].ts = 300 /\ Len(doInserted[i].dims) = 4
    /\ \E i \in 1 .. Len(doInserted) :
          doInserted[i].ts = 1 /\ Len(doInserted[i].dims) = 2

RECURSIVE SumLen(_, _)
SumLen(f, S) ==
    IF S = {} THEN 0
    ELSE LET x == CHOOSE x \in S : TRUE IN Len(f[x]) + SumLen(f, S \ {x})

TotalFrames == SumLen(wal, DOMAIN wal)

\* InsertRaw alone, over every stream name, point and WAL failure, one
\* call at a time.
InsertAny ==
    /\ call.outcome = "none"
    /\ TotalFrames <= MaxPrior
    /\ okCalls <= MaxPrior
    /\ \E stream \in StreamNames, p \in PointSet, vals \in ValsSet :
          \E werrs \in WriteErrs(Len(Rows(vals))) \cup {<<>>} :
              InsertRaw(stream, p.ts, p.dims, vals, werrs)

InitInsert ==
    /\ Init
    /\ where = Nil

\* The caller has the result of its InsertRaw; the record of the call is
\* dropped.
InsertReturns ==
    /\ call.outcome # "none"
    /\ call' = NoCall
    /\ UNCHANGED <<isFollower, where, GroupBy, wal, written, okCalls, rdPc, rdPos,
                   rdBuf, wkPc, read, observed, rowStore, doInserted, stats,
                   clock, stopped, pooled, truncLog, queryVars>>

NextInsert == InsertAny \/ InsertReturns

SpecInsert == InitInsert /\ [][NextInsert]_vars

--------------------------------------------------------------------------
(* Properties of InsertRaw.                                               *)

\* The registry key a stream name stands for: the name in lower case
\* without the spaces around it.
CanonicalName(stream) ==
    CASE stream \in {<<"a">>, <<" ", "A", " ">>} -> <<"a">>
      [] stream = <<"B", " ">> -> <<"b">>
      [] OTHER -> stream

\* The last call passed the follower and stream checks.
Accepted ==
    /\ call.outcome # "none"
    /\ ~isFollower
    /\ CanonicalName(call.stream) \in Registered

Scalar(val) == val.type \in {"float64", "int"}

Vector(val) == val.type \in {"[]float64", "[]int"}

\* vals is not empty and holds only scalars and non-empty vectors.
Supported(vals) ==
    /\ vals # <<>>
    /\ \A i \in 1 .. Len(vals) :
          \/ Scalar(vals[i].val)
          \/ Vector(vals[i].val) /\ vals[i].val.v # <<>>

\* The elements after the first of the vectors of vals, as (entry, index).
FurtherElements(vals) ==
    UNION {{<<i, j>> : j \in 2 .. Len(vals[i].val.v)} :
             i \in {h \in 1 .. Len(vals) : Vector(vals[h].val)}}

\* The main row of vals: every field with its scalar or first element.
MainRow(vals) ==
    [j \in 1 .. (2 * Len(vals)) |->
        IF j % 2 = 1 THEN vals[(j + 1) \div 2].key ELSE vals[j \div 2].val.v[1]]

\* The row of one further element: its field alone.
FurtherRow(vals, x) == <<vals[x[1]].key, vals[x[1]].val.v[x[2]]>>

Count(seq, x) == Cardinality({i \in 1 .. Len(seq) : seq[i] = x})

RECURSIVE Kept(_, _)
\* The frames of writes whose w.Write returned nil.
Kept(writes, werrs) ==
    IF writes = <<>> THEN <<>>
    ELSE (IF werrs[1] = 0 THEN <<writes[1]>> ELSE <<>>)
         \o Kept(Tail(writes), Tail(werrs))

\* C7: an accepted InsertRaw of scalars and non-empty vectors hands the WAL
\* exactly one main frame, carrying every scalar and every vector's first
\* element, and one frame per further vector element carrying that field
\* alone, all with the call's ts and dims; the WAL is appended exactly the
\* frames whose write did not fail.
C7_VectorExpansion ==
    (Accepted /\ Supported(call.vals)) =>
        LET further == FurtherElements(call.vals)
            main == Frame(call.ts, call.dims, MainRow(call.vals))
            sub(x) == Frame(call.ts, call.dims, FurtherRow(call.vals, x))
            k == CanonicalName(call.stream)
        IN  /\ call.outcome \in {"ok", "error"}
            /\ Len(call.writes) = 1 + Cardinality(further)
            /\ \A f \in {call.writes[i] : i \in 1 .. Len(call.writes)}
                          \cup {main} \cup {sub(x) : x \in further} :
                  Count(call.writes, f)
                     = (IF f = main THEN 1 ELSE 0)
                       + Cardinality({x \in further : sub(x) = f})
            /\ wal[k] = call.before[k] \o Kept(call.writes, call.werrs)
            /\ \A i \in (Len(call.before[k]) + 1) .. Len(wal[k]) :
                  /\ written[k][i].ts = call.ts
                  /\ written[k][i].dims = call.dims

\* {1: [1, 2, 3]} was inserted without error and appended three frames.
C7_Witness ==
    /\ Accepted
    /\ call.vals = <<Entry(1, Floats(<<1, 2, 3>>))>>
    /\ call.outcome = "ok"
    /\ Len(wal[CanonicalName(call.stream)])
          = Len(call.before[CanonicalName(call.stream)]) + 3

\* The writes an InsertRaw that returns makes: one per further vector
\* element, and the main row when any scalar or vector is present.
ExpectedWrites(vals) ==
    Cardinality(FurtherElements(vals))
       + (IF \E i \in 1 .. Len(vals) : Scalar(vals[i].val) \/ Vector(vals[i].val)
          THEN 1 ELSE 0)

\* The writes of the last call that failed.
Failed == {i \in 1 .. Len(call.werrs) : call.werrs[i] # 0}

\* C8: an accepted InsertRaw that returns has attempted every one of its
\* writes whichever failed, returns an error exactly when one of them
\* failed, and then returns the error of the last one that failed.
C8_LastErrorWins ==
    (Accepted /\ call.outcome \in {"ok", "error"}) =>
        /\ Len(call.writes) = ExpectedWrites(call.vals)
        /\ Len(call.werrs) = Len(call.writes)
        /\ call.err # 0 <=> Failed # {}
        /\ call.outcome = "error" <=> Failed # {}
        /\ Failed # {} =>
              call.err = call.werrs[CHOOSE i \in Failed : \A j \in Failed : j <= i]

\* A call whose first and last write failed and whose second succeeded.
C8_Witness ==
    /\ Accepted
    /\ Len(call.werrs) = 3
    /\ Failed = {1, 3}
    /\ call.err = call.werrs[3]
    /\ Len(wal[CanonicalName(call.stream)])
          = Len(call.before[CanonicalName(call.stream)]) + 1

\* C9: an InsertRaw on a follower or on a name that stands for no
\* registered stream returns an error, writes nothing and leaves every WAL
\* as it was; any other call is not rejected and changes at most the WAL of
\* the stream its name stands for, by appending to it.
C9_RejectedLeavesWal ==
    call.outcome # "none" =>
        /\ (isFollower \/ CanonicalName(call.stream) \notin Registered) =>
              /\ call.outcome = "error"
              /\ call.err # 0
              /\ call.writes = <<>>
              /\ wal = call.before
        /\ Accepted =>
              /\ call.err \notin {ErrFollower, ErrNoWal}
              /\ \A s \in Registered \ {CanonicalName(call.stream)} :
                    wal[s] = call.before[s]
              /\ Len(call.before[CanonicalName(call.stream)])
                    <= Len(wal[CanonicalName(call.stream)])
              /\ call.before[CanonicalName(call.stream)]
                    = SubSeq(wal[CanonicalName(call.stream)], 1,
                             Len(call.before[CanonicalName(call.stream)]))

\* An insert on an unknown stream was rejected while a WAL held a frame.
C9_Witness ==
    /\ ~isFollower
    /\ call.stream = <<"c">>
    /\ call.outcome = "error"
    /\ call.err = ErrNoWal
    /\ call.vals # <<>>
    /\ TotalFrames > 0
    /\ wal = call.before

\* The Filter of one planned query, its Include invoked concurrently.
InitPlanned ==
    /\ Init
    /\ ~isFollower
    /\ where = Nil

SpecFilter == InitPlanned /\ [][NextFilter]_vars

\* Plan alone, for a leader's table without WHERE.
SpecPlan == InitPlanned /\ [][NextPlan]_vars

\* The handler's goroutines: coalesceQueries and processQueries are
\* scheduled whenever they can take a step; producers come and go as they
\* please.
SpecHandler ==
    /\ InitPlanned
    /\ [][NextHandler]_vars
    /\ WF_vars(coalesceQueries)
    /\ WF_vars(QueriesDone)

--------------------------------------------------------------------------
(* The reader and the worker of a table whose WAL is filled by            *)
(* replication: on a follower, and with frames that may have been cut     *)
(* short.                                                                 *)

\* The frames that reach the WAL: the point, the vals and the number of
\* bytes missing at the end.  Dims {1: 1} are in the partition and pass the
\* WHERE; {1: 1, 2: 1} are outside the partition and pass the WHERE;
\* {1: 2, 2: 1} are in the partition and fail the WHERE.
FeedFrames ==
    { [ts |-> 1,   dims |-> <<1, 1>>,       vals |-> <<1, 1>>, missing |-> 0],
      [ts |-> 300, dims |-> <<1, 1>>,       vals |-> <<1, 1>>, missing |-> 0],
      [ts |-> 200, dims |-> <<1, 1, 2, 1>>, vals |-> <<1, 1>>, missing |-> 0],
      [ts |-> 200, dims |-> <<1, 1, 2, 1>>, vals |-> <<1, 2>>, missing |-> 0],
      [ts |-> 200, dims |-> <<1, 2, 2, 1>>, vals |-> <<1, 1>>, missing |-> 0],
      [ts |-> 300, dims |-> <<1, 1>>,       vals |-> <<1, 1>>, missing |-> 1],
      [ts |-> 300, dims |-> <<1, 1>>,       vals |-> <<1, 1>>, missing |-> 14],
      [ts |-> 1,   dims |-> <<1, 1>>,       vals |-> <<1, 1>>, missing |-> 7] }

\* One of the given frames is appended to the table's WAL.
FeedFrom(frames) ==
    /\ Len(wal[TableStream]) < MaxFeed
    /\ \E f \in frames :
          \E frame \in {Frame(f.ts, f.dims, f.vals)} :
             /\ wal' = [wal EXCEPT ![TableStream] =
                           Append(@, SubSeq(frame, 1, Len(frame) - f.missing))]
             /\ written' = [written EXCEPT ![TableStream] =
                           Append(@, [ts |-> f.ts, dims |-> f.dims, vals |-> f.vals,
                                      ok |-> TRUE])]
    /\ UNCHANGED <<isFollower, where, GroupBy, call, okCalls, rdPc, rdPos, rdBuf,
                   wkPc, read, observed, rowStore, doInserted, stats, clock,
                   stopped, pooled, truncLog, queryVars>>

\* t.recordQueued(), called while the worker runs.
RecordQueued ==
    /\ stats.QueuedPoints < MaxQueued
    /\ stats' = recordQueued(stats)
    /\ UNCHANGED <<isFollower, where, GroupBy, wal, written, call, okCalls, rdPc,
                   rdPos, rdBuf, wkPc, read, observed, rowStore, doInserted, clock,
                   stopped, pooled, truncLog, queryVars>>

Feed == FeedFrom(FeedFrames)

NextFeed ==
    \/ Feed
    \/ WalRead
    \/ WorkerReceive
    \/ WorkerInsert
    \/ RecordQueued
    \/ WorkerStop
    \/ Close

SpecFeed == Init /\ [][NextFeed]_vars

\* The reader and the worker when a read may return no data.
NextAck ==
    \/ Feed
    \/ WalRead
    \/ WalReadEmpty
    \/ WorkerReceive
    \/ WorkerInsert
    \/ WorkerStop
    \/ Close

SpecAck == Init /\ [][NextAck]_vars

\* The complete frames with dims {1: 1}.
StopFrames == {f \in FeedFrames : f.missing = 0 /\ f.dims = <<1, 1>>}

FeedStop == FeedFrom(StopFrames)

NextStop ==
    \/ FeedStop
    \/ WalRead
    \/ WorkerReceive
    \/ WorkerInsert
    \/ WorkerStop
    \/ Close

\* The reader and the worker while the stop channel may be closed.  The
\* worker's goroutine is scheduled, and its select, which chooses among its
\* ready cases at random, does not pass over the closed stop channel for
\* ever.
SpecStop ==
    /\ Init
    /\ [][NextStop]_vars
    /\ WF_vars(WorkerInsert)
    /\ SF_vars(WorkerStop)

--------------------------------------------------------------------------
(* Properties of the worker fed by the WAL.                               *)

Counters == {"FilteredPoints", "InsertedPoints", "QueuedPoints"}

\* C14: every step leaves the counters of stats as they are or adds
\* exactly one to exactly one of them; none ever decreases.
C14_CountersGrowByOne ==
    [][\/ stats' = stats
       \/ \E f \in Counters :
             /\ stats'[f] = stats[f] + 1
             /\ \A g \in Counters \ {f} : stats'[g] = stats[g]]_vars

\* Each of the three counters has been incremented.
C14_Witness ==
    /\ stats.FilteredPoints > 0
    /\ stats.InsertedPoints > 0
    /\ stats.QueuedPoints > 0

\* C15: while the worker is still decoding a frame, the reader has not
\* performed the wal.Read() that follows the one that returned this frame.
C15_CopyBeforeNextRead ==
    wkPc = "insert" => rdPos = read[1].offset

\* The bytes the frame at offset o lacks at its end.
Missing(o) ==
    Len(Frame(Point(o).ts, Point(o).dims, Point(o).vals)) - Len(wal[TableStream][o])

\* Decoding the frame at offset o panics when truncateBefore() returns tb:
\* bytes are missing, and the decoder does not return before it needs them.
Panics(o, tb) ==
    LET n == Len(wal[TableStream][o])
        upToDims == Width64bits + Width32bits + Len(Point(o).dims)
    IN  /\ Missing(o) > 0
        /\ \/ n < Width64bits
           \/ /\ Point(o).ts >= tb
              /\ \/ n < upToDims
                 \/ ~(isFollower /\ ~inPartition(Point(o).dims))

\* The frame at offset o is complete and passes every check of insert and
\* doInsert when truncateBefore() returns tb.
Passes(o, tb) ==
    /\ Missing(o) = 0
    /\ Point(o).ts >= tb
    /\ isFollower => inPartition(Point(o).dims)
    /\ where # Nil => Get(Point(o).dims, where[1].k) = Some(where[1].v)

RECURSIVE MaxOf(_)
MaxOf(S) ==
    IF S = {} THEN 0
    ELSE LET x == CHOOSE x \in S : TRUE
             m == MaxOf(S \ {x})
         IN  IF x > m THEN x ELSE m

\* The frames processed so far.
Processed == 1 .. Len(truncLog)

\* C18: the clock is the greatest timestamp of the frames processed so far
\* that passed the truncation, partition and WHERE checks, or its initial
\* value when there is none: it never goes back, and a frame that is stale,
\* out of partition or filtered leaves it as it was.
C18_ClockIsMaxAdmitted ==
    clock = MaxOf({Point(o).ts : o \in {h \in Processed : Passes(h, truncLog[h])}})

\* After a frame at 300, a frame at 200 was admitted, and the clock is
\* still 300.
C18_Witness ==
    /\ Len(truncLog) = 2
    /\ Passes(1, truncLog[1])
    /\ Point(1).ts = 300
    /\ Passes(2, truncLog[2])
    /\ Point(2).ts = 200
    /\ clock = 300
    /\ Len(rowStore) = 2

\* C19: once the stop channel is closed the worker returns, and once it
\* has returned the row store is handed nothing more.
C19_StopEndsWorker ==
    /\ stopped ~> wkPc = "returned"
    /\ [][wkPc = "returned" => rowStore' = rowStore /\ wkPc' = "returned"]_vars

\* The worker has returned on stop after applying a frame, while the
\* reader still offers the next one.
C19_Witness ==
    /\ wkPc = "returned"
    /\ stopped
    /\ rdPc = "send"
    /\ Len(rowStore) = 1

\* C20: on a follower, processing a frame that is past truncation and
\* whose dims are outside the partition hands the row store the skip marker
\* with the frame's offset and changes neither stats nor clock; on a
\* non-follower every complete frame past truncation reaches doInsert
\* whatever its dims.
C20_PartitionOnlyOnFollower ==
    [][Processing =>
          LET o == read[1].offset
              tb == truncLog'[Len(truncLog')]
              dimsRead == Len(wal[TableStream][o])
                             >= Width64bits + Width32bits + Len(Point(o).dims)
          IN  /\ (isFollower /\ Point(o).ts >= tb /\ dimsRead
                     /\ ~inPartition(Point(o).dims)) =>
                    /\ rowStore' = Append(rowStore, SkipMarker(o, read[1].source))
                    /\ stats' = stats
                    /\ clock' = clock
                    /\ doInserted' = doInserted
              /\ (~isFollower /\ Point(o).ts >= tb /\ Missing(o) = 0) =>
                    /\ Len(doInserted') = Len(doInserted) + 1
                    /\ doInserted'[Len(doInserted')].offset = o
                    /\ doInserted'[Len(doInserted')].dims = Point(o).dims]_vars

\* On a follower, the two frames of one vector insert whose dims are
\* outside the partition have both been skipped.
C20_Witness ==
    /\ isFollower
    /\ Len(truncLog) = 2
    /\ Point(1).dims = <<1, 1, 2, 1>>
    /\ Point(2).dims = <<1, 1, 2, 1>>
    /\ Point(1).vals # Point(2).vals
    /\ ~inPartition(Point(1).dims)
    /\ rowStore = <<SkipMarker(1, 0), SkipMarker(2, 0)>>
    /\ stats.FilteredPoints = 0
    /\ stats.InsertedPoints = 0
    /\ clock = 0

\* C21: the row store has had one call for each frame with data the worker
\* has finished with.  Receiving a read without data calls nothing and
\* changes no counter; receiving one with data commits the worker to
\* processing it; processing it makes exactly one rowStore.insert call with
\* its offset and source, a real insert exactly when the frame passes every
\* check and the skip marker otherwise; no other step calls the row store.
C21_ExactlyOneAck ==
    /\ [](Len(rowStore) = pooled)
    /\ [][/\ Len(observed') = Len(observed) + 1 =>
                /\ rowStore' = rowStore
                /\ stats' = stats
                /\ pooled' = pooled
                /\ IF rdBuf[1].data = Nil
                   THEN wkPc' = "select"
                   ELSE wkPc' = "insert" /\ read' = rdBuf
          /\ wkPc = "insert" => wkPc' \in {"insert", "select"}
          /\ Processing =>
                LET o == read[1].offset
                    tb == truncLog'[Len(truncLog')]
                    last == rowStore'[Len(rowStore')]
                IN  /\ Len(rowStore') = Len(rowStore) + 1
                    /\ SubSeq(rowStore', 1, Len(rowStore)) = rowStore
                    /\ last.offset = o
                    /\ last.source = read[1].source
                    /\ last.key # Nil <=> Passes(o, tb)
                    /\ ~Passes(o, tb) => last = SkipMarker(o, read[1].source)
                    /\ Passes(o, tb) =>
                          stats'.InsertedPoints = stats.InsertedPoints + 1
          /\ ~Processing => rowStore' = rowStore]_vars

\* The worker has received two frames with data and a read without: the
\* first frame was inserted, the second skipped, and the empty read left
\* nothing behind.
C21_Witness ==
    /\ rdPos = 2
    /\ Len(observed) = 3
    /\ wkPc = "select"
    /\ Len(rowStore) = 2
    /\ rowStore[1].key # Nil
    /\ rowStore[1].offset = 1
    /\ rowStore[2] = SkipMarker(2, 0)
    /\ stats.InsertedPoints = 1
    /\ pooled = 2

--------------------------------------------------------------------------
(* Properties of Plan.                                                    *)

\* Plan returned a pipeline.
Planned == planned.called /\ planned.err = "nil"

\* The source of the returned pipeline: its last table or Unflatten.
Root ==
    CHOOSE i \in 1 .. Len(planned.ops) :
        /\ planned.ops[i].op \in {"Table", "Unflatten"}
        /\ \A j \in (i + 1) .. Len(planned.ops) :
              planned.ops[j].op \notin {"Table", "Unflatten"}

\* The operators after the source, in the order they were created.
Chain == [i \in 1 .. (Len(planned.ops) - Root) |-> planned.ops[Root + i].op]

\* The query's AsOf, Until and Resolution once offsets are resolved, the
\* source's being kept where the query sets none.
Resolved ==
    LET q == planned.query[1]
        src == planned.source[1]
    IN  [AsOf |-> IF q.AsOfOffset # 0 THEN planned.now + q.AsOfOffset
                  ELSE IF q.AsOf # 0 THEN q.AsOf ELSE src.AsOf,
         Until |-> IF q.UntilOffset # 0 THEN planned.now + q.UntilOffset
                   ELSE IF q.Until # 0 THEN q.Until ELSE src.Until,
         Resolution |-> IF q.Resolution # 0 THEN q.Resolution ELSE src.Resolution]

Filtered == IF planned.query[1].Where # "nil" THEN <<"Filter">> ELSE <<>>

\* C11: the returned pipeline has a Group, connected to the source (or
\* Filter) and feeding Flatten, exactly when the resolved query differs from
\* the source in AsOf, Until or Resolution, declares specific fields or is
\* not group-by-all; otherwise Flatten is connected to the source (or
\* Filter).
C11_GroupRule ==
    Planned =>
        LET q == planned.query[1]
            src == planned.source[1]
            need == \/ Resolved.AsOf # src.AsOf
                    \/ Resolved.Until # src.Until
                    \/ Resolved.Resolution # src.Resolution
                    \/ q.HasSpecificFields
                    \/ ~q.GroupByAll
            at == Root + Len(Filtered)
        IN  /\ SubSeq(Chain, 1, Len(Filtered)) = Filtered
            /\ IF need
               THEN /\ SubSeq(Chain, Len(Filtered) + 1, Len(Filtered) + 2)
                          = <<"Group", "Flatten">>
                    /\ planned.ops[at + 1].upstream = at
                    /\ planned.ops[at + 2].upstream = at + 1
                    /\ planned.ops[at + 1].arg
                          = <<IF q.AsOfOffset # 0 THEN planned.now + q.AsOfOffset
                              ELSE q.AsOf,
                              IF q.UntilOffset # 0 THEN planned.now + q.UntilOffset
                              ELSE q.Until,
                              q.Resolution>>
               ELSE /\ SubSeq(Chain, Len(Filtered) + 1, Len(Filtered) + 1)
                          = <<"Flatten">>
                    /\ planned.ops[at + 1].upstream = at

\* A filtered query whose AsOf offset resolves to the source's AsOf and
\* that sets nothing else was planned without a Group.
C11_Witness ==
    /\ Planned
    /\ planned.query[1].AsOfOffset = -1
    /\ planned.source[1].AsOf = 5
    /\ planned.query[1].Where = "ok"
    /\ Chain = <<"Filter", "Flatten">>
    /\ planned.ops[Root + 2].upstream = Root + 1

\* Whether the top-level pipeline has a Group.
Grouped == \E i \in 1 .. Len(Chain) : Chain[i] = "Group"

\* The returned pipeline is the chain that has Offset and Limit as given,
\* each operator connected to the one before it.
LinearChain(hasOffset, hasLimit) ==
    LET q == planned.query[1]
    IN  /\ Chain = Filtered
                     \o (IF Grouped THEN <<"Group">> ELSE <<>>)
                     \o <<"Flatten">>
                     \o (IF q.OrderBy # <<>> THEN <<"Sort">> ELSE <<>>)
                     \o (IF hasOffset THEN <<"Offset">> ELSE <<>>)
                     \o (IF hasLimit THEN <<"Limit">> ELSE <<>>)
        /\ \A i \in (Root + 1) .. Len(planned.ops) : planned.ops[i].upstream = i - 1
        /\ planned.flat = Len(planned.ops)
        /\ planned.ops[Root].upstream
              = (IF planned.ops[Root].op = "Table" THEN 0 ELSE Root - 1)

\* C12 as stated: the pipeline is source -> [Filter] -> [Group] -> Flatten ->
\* [Sort] -> [Offset] -> [Limit], Offset present iff Offset is non-zero and
\* Limit iff Limit is non-zero.
C12_ChainNonZero ==
    Planned => LinearChain(planned.query[1].Offset # 0, planned.query[1].Limit # 0)

\* C12, amended: the same chain, Offset present iff Offset is greater than
\* zero and Limit iff Limit is greater than zero.
C12_ChainPositive ==
    Planned => LinearChain(planned.query[1].Offset > 0, planned.query[1].Limit > 0)

\* A query over a sub-query with WHERE, ORDER BY, an offset and a limit was
\* planned into the full chain.
C12_Witness ==
    /\ Planned
    /\ planned.query[1].FromSubQuery # Nil
    /\ Chain = <<"Filter", "Group", "Flatten", "Sort", "Offset", "Limit">>
    /\ planned.ops[Root].op = "Unflatten"

--------------------------------------------------------------------------
(* Properties of the handler.                                             *)

\* C17: whenever coalesceQueries is re-queuing the queries left out of the
\* current run, its sends on h.queries complete and it reaches the send of
\* the coalesced batch.
C17_RequeueCompletes == (coPc = "requeue") ~> (coPc = "send")

--------------------------------------------------------------------------
(* Properties of the Filter.                                              *)

\* C4: under every interleaving of the callers of Include, runSubQueries
\* is entered at most once, and only by a caller that swapped the latch.
C4_RunsAtMostOnce ==
    /\ runs <= 1
    /\ Cardinality({c \in Callers : pc[c] = "runSubQueries"}) <= 1
    /\ runs = 1 <=> hasRunSubqueries = 1
    /\ \A c \in Callers : pc[c] = "runSubQueries" => runs = 1

\* One caller is inside runSubQueries while another, having lost the swap,
\* is about to evaluate, and a third has already been through Include.
C4_Witness ==
    /\ runs = 1
    /\ \E c, d, e \in Callers :
          /\ pc[c] = "runSubQueries"
          /\ pc[d] = "eval"
          /\ e \notin {c, d}
          /\ ret[e].called

\* C5: every invocation of Include that has evaluated query.Where and
\* returned did so after runSubQueries had returned.
C5_SubQueriesBeforeEval ==
    \A c \in Callers : ret[c].called => ret[c].subq = "returned"

\* C13: an invocation whose runSubQueries returned deadline-exceeded
\* evaluates the WHERE against its key and returns that result with no
\* error; one whose runSubQueries returned another error returns false and
\* that error without evaluating the WHERE.
C13_DeadlineNonFatal ==
    \A c \in Callers :
        ret[c].called =>
            /\ ret[c].subErr = "deadline" =>
                  /\ ret[c].evaluated
                  /\ ret[c].err = "nil"
                  /\ ret[c].ok = (ret[c].key \in subData)
            /\ ret[c].subErr = "other" =>
                  /\ ~ret[c].evaluated
                  /\ ~ret[c].ok
                  /\ ret[c].err = "other"
            /\ ret[c].evaluated <=> ret[c].err = "nil"

\* The sub-queries timed out after realising a row, and the invocation
\* that ran them included the row's key without error.
C13_Witness ==
    \E c \in Callers :
        /\ ret[c].called
        /\ ret[c].subErr = "deadline"
        /\ ret[c].ok
        /\ ret[c].err = "nil"
        /\ subData = {1}

\* C22: the latch is set in the step that enters runSubQueries and is never
\* reset, and runSubQueries is never entered again.  Once the run has
\* returned, with whatever outcome, an invocation goes straight to the
\* evaluation of the WHERE and leaves the sub-query results alone.  The
\* only invocation that returns an error is the one that ran the
\* sub-queries, and it returns the error they gave it.
C22_LatchNeverReset ==
    /\ [](Cardinality({c \in Callers : ret[c].called /\ ret[c].err # "nil"}) <= 1)
    /\ [][/\ runs' # runs => hasRunSubqueries = 0 /\ hasRunSubqueries' = 1
          /\ hasRunSubqueries = 1 => hasRunSubqueries' = 1 /\ runs' = runs
          /\ \A c \in Callers :
                /\ (subq = "returned" /\ pc[c] = "idle" /\ pc'[c] # "idle") =>
                      /\ pc'[c] = "eval"
                      /\ subErr'[c] = "none"
                      /\ subq' = "returned"
                      /\ subData' = subData
                /\ (ret'[c] # ret[c] /\ ret'[c].err # "nil") =>
                      /\ pc[c] = "runSubQueries"
                      /\ ret'[c].ran
                      /\ ret'[c].err = subErr'[c]
                /\ (ret'[c] # ret[c] /\ subErr[c] = "none"
                       /\ pc[c] = "eval") =>
                      /\ ret'[c].evaluated
                      /\ ~ret'[c].ran
                      /\ ret'[c].err = "nil"]_vars

\* The run failed and its invocation returned the error; a later
\* invocation evaluated the WHERE without running anything, and a third is
\* about to; the latch is still set and there was one run.
C22_Witness ==
    /\ hasRunSubqueries = 1
    /\ runs = 1
    /\ subq = "returned"
    /\ \E c, d, e \in Callers :
          /\ ret[c].called
          /\ ret[c].err = "other"
          /\ ret[c].ran
          /\ d # c
          /\ ret[d].called
          /\ ret[d].subq = "returned"
          /\ ret[d].evaluated
          /\ ~ret[d].ran
          /\ ret[d].err = "nil"
          /\ e \notin {c, d}
          /\ pc[e] = "eval"
          /\ subErr[e] = "none"

==========================================================================
